---------------------------- MODULE Spec2Model ----------------------------
(***************************************************************************)
(* Dead-time model of Zhang+95 (stingray/deadtime/model.py).               *)
(*                                                                         *)
(* Floating-point numbers are modelled as exact rationals <<num, den>>.    *)
(* The transcendental factors (np.exp, np.cos, the Stirling form) are kept *)
(* as symbols: a value is a finite sum of rational multiples of symbols.   *)
(* Magnitude tests of the code (m * log10(x) < 50, -log10(|t/s|) > 15) are  *)
(* decided exactly on multi-precision naturals.  A Python exception is the *)
(* absorbing value "err"; a read past the end of a compiled array is the   *)
(* absorbing value "junk" (an unspecified double).                         *)
(***************************************************************************)
EXTENDS Integers, Sequences, FiniteSets

(***************************************************************************)
(* Program constants.                                                      *)
(***************************************************************************)
MAX_FACTORIAL == 100

PRECISION == 15

DEFAULT_LIMIT_K == 60

DIRECT_LOG_LIMIT == 50

WARN_RATIO == 100

(***************************************************************************)
(* Exact rationals.  <<n, d>> with d > 0 in lowest terms; <<0, 0>> is the  *)
(* outcome of a division by zero (ZeroDivisionError).                      *)
(***************************************************************************)
Abs(i) == IF i < 0 THEN -i ELSE i

RECURSIVE GCD(_, _)
GCD(a, b) == IF b = 0 THEN a ELSE GCD(b, a % b)

QErr == <<0, 0>>

QIsErr(q) == q[2] = 0

QNorm(n, d) ==
    IF d = 0 THEN QErr
    ELSE LET g == GCD(Abs(n), Abs(d))
             s == IF d < 0 THEN -1 ELSE 1
         IN  <<(s * n) \div g, (s * d) \div g>>

QInt(i) == <<i, 1>>

QAdd(p, q) ==
    IF QIsErr(p) \/ QIsErr(q) THEN QErr
    ELSE QNorm(p[1] * q[2] + q[1] * p[2], p[2] * q[2])

QNeg(p) == IF QIsErr(p) THEN QErr ELSE <<-p[1], p[2]>>

QSub(p, q) == QAdd(p, QNeg(q))

QMul(p, q) ==
    IF QIsErr(p) \/ QIsErr(q) THEN QErr
    ELSE QNorm(p[1] * q[1], p[2] * q[2])

QDiv(p, q) ==
    IF QIsErr(p) \/ QIsErr(q) THEN QErr
    ELSE QNorm(p[1] * q[2], p[2] * q[1])

QLt(p, q) == p[1] * q[2] < q[1] * p[2]

QLe(p, q) == p[1] * q[2] <= q[1] * p[2]

QMax(p, q) == IF QLt(p, q) THEN q ELSE p

\* int(y) for y >= 1: truncation is the floor
QFloor(q) == q[1] \div q[2]

QCeil(q) == -((-q[1]) \div q[2])

(***************************************************************************)
(* Multi-precision naturals: little-endian limbs in base 10^6, no leading  *)
(* zero limb; zero is the empty sequence.  Used only to decide the two     *)
(* magnitude tests exactly.  Multipliers stay below 2000.                  *)
(***************************************************************************)
BBase == 1000 * 1000

BZero == << >>

BOne == <<1>>

RECURSIVE BMulC(_, _, _)
BMulC(u, c, carry) ==
    IF u = << >> THEN
        IF carry = 0 THEN << >>
        ELSE <<carry % BBase>> \o BMulC(<< >>, c, carry \div BBase)
    ELSE LET v == Head(u) * c + carry
         IN  <<v % BBase>> \o BMulC(Tail(u), c, v \div BBase)

\* u * c for a small natural c
BMul(u, c) == IF c = 0 THEN BZero ELSE BMulC(u, c, 0)

RECURSIVE BAddC(_, _, _)
BAddC(u, v, carry) ==
    IF u = << >> /\ v = << >> THEN
        IF carry = 0 THEN << >> ELSE <<carry>>
    ELSE LET a == IF u = << >> THEN 0 ELSE Head(u)
             b == IF v = << >> THEN 0 ELSE Head(v)
             w == a + b + carry
         IN  <<w % BBase>>
               \o BAddC(IF u = << >> THEN u ELSE Tail(u),
                        IF v = << >> THEN v ELSE Tail(v), w \div BBase)

BAdd(u, v) == BAddC(u, v, 0)

RECURSIVE BLessFrom(_, _, _)
BLessFrom(u, v, i) ==
    IF i = 0 THEN FALSE
    ELSE IF u[i] # v[i] THEN u[i] < v[i]
    ELSE BLessFrom(u, v, i - 1)

BLess(u, v) ==
    IF Len(u) # Len(v) THEN Len(u) < Len(v) ELSE BLessFrom(u, v, Len(u))

Pow10(e) == CASE e = 0 -> 1 [] e = 1 -> 10 [] e = 2 -> 100 [] e = 3 -> 1000
              [] e = 4 -> 10000 [] e = 5 -> 100000

\* u * 10^e: whole limbs are shifted in, the rest is a small multiplier
BTimes10(u, e) ==
    IF u = << >> THEN u
    ELSE [i \in 1 .. (e \div 6) |-> 0] \o BMul(u, Pow10(e % 6))

(***************************************************************************)
(* Values: [tag, t].  tag "ok": the sum of q * symbol over the terms       *)
(* <<symbol, qn, qd>> of t (no zero coefficient, one term per symbol).     *)
(* tag "err": an exception was raised.  tag "junk": unspecified double.    *)
(* A symbol is <<kind, xn, xd, m, cr, cN>>:                                *)
(*   kind 0: 1;  kind 1: exp(-x) * x^m / m! (direct formula, x = xn/xd);   *)
(*   kind 2: the Stirling form of the same ratio;                          *)
(* times cos(2 pi cr / cN) (cr = 0, cN = 1: no cosine factor).             *)
(***************************************************************************)
Unit == <<0, 0, 1, 0, 0, 1>>

VErr == [tag |-> "err", t |-> {}]

VJunk == [tag |-> "junk", t |-> {}]

VZero == [tag |-> "ok", t |-> {}]

VConst(q) ==
    IF QIsErr(q) THEN VErr
    ELSE IF q[1] = 0 THEN VZero
    ELSE [tag |-> "ok", t |-> {<<Unit, q[1], q[2]>>}]

VSym(kind, x, m) == [tag |-> "ok", t |-> {<<<<kind, x[1], x[2], m, 0, 1>>, 1, 1>>}]

VIsErr(v) == v.tag = "err"

VCoef(ts, a) ==
    IF \E t \in ts : t[1] = a
    THEN LET t == CHOOSE t \in ts : t[1] = a IN <<t[2], t[3]>>
    ELSE <<0, 1>>

VAdd(v, w) ==
    IF v.tag = "err" \/ w.tag = "err" THEN VErr
    ELSE IF v.tag = "junk" \/ w.tag = "junk" THEN VJunk
    ELSE LET syms == {t[1] : t \in v.t \cup w.t}
             sum(a) == QAdd(VCoef(v.t, a), VCoef(w.t, a))
         IN  [tag |-> "ok",
              t |-> {<<a, sum(a)[1], sum(a)[2]>> : a \in {b \in syms : sum(b)[1] # 0}}]

VScale(q, v) ==
    IF QIsErr(q) \/ v.tag = "err" THEN VErr
    ELSE IF v.tag = "junk" THEN VJunk
    ELSE IF q[1] = 0 THEN VZero
    ELSE [tag |-> "ok",
          t |-> {<<t[1], QMul(q, <<t[2], t[3]>>)[1], QMul(q, <<t[2], t[3]>>)[2]>> : t \in v.t}]

VSub(v, w) == VAdd(v, VScale(QInt(-1), w))

(***************************************************************************)
(* State.                                                                  *)
(*   build       "python": the njit decorator is the identity, indexing is *)
(*               bounds-checked; "numba": compiled, no bounds check.       *)
(*   td, tb, tau, r0   detector parameters of the running call             *)
(*   k, n        lag and series index of the running call                  *)
(*   pc          position of the running call                              *)
(*   ret         value returned (or "err": the exception raised)           *)
(*   g           Gn: loop state (m, s and the exact magnitudes)            *)
(*   reads       indices at which __INVERSE_FACTORIALS was read            *)
(*   asum, added A0 / A_single_k: the running sum s and the n added so far *)
(*   limit_k     the cut of the lags                                       *)
(*   acalls      number of evaluations of A_single_k                       *)
(*   N, rate     arguments of pds_model_zhang                              *)
(*   P           the array P of _inner_loop_pds_zhang, slot j -> value     *)
(*   it          prange iteration j -> [st, k]: its position and its lag   *)
(*   eq8_sum     accumulator of each iteration                             *)
(*   freqs       the frequency axis returned                               *)
(*   calls       the calls of safe_B_single_k made by the loop             *)
(*   wlog        <<j, slot>>: iteration j wrote P[slot]                    *)
(*   nwrites     slot -> number of writes                                  *)
(*   acc         <<j, i>>: iteration j read or wrote the accumulator of i  *)
(*   tablew      number of writes to __INVERSE_FACTORIALS                  *)
(*   warned      warnings.warn was called                                  *)
(***************************************************************************)
VARIABLES build, td, tb, tau, r0, k, n, pc, ret, g, reads, asum, added,
          limit_k, acalls, N, rate, P, it, eq8_sum, freqs, calls, wlog,
          nwrites, acc, tablew, warned

pvars == <<N, rate, P, it, eq8_sum, freqs, calls, wlog, nwrites, acc, tablew, warned>>

vars == <<build, td, tb, tau, r0, k, n, pc, ret, g, reads, asum, added,
          limit_k, acalls, pvars>>

Min(a, b) == IF a < b THEN a ELSE b

Builds == {"python", "numba"}

(***************************************************************************)
(* e_m_x_x_over_factorial(x, m).  xm = <<a^m, b^m>> is x**m for x = a/b.   *)
(***************************************************************************)
\* m * np.log10(x) < 50; log10(0) = -inf, log10 of a negative is nan
DirectBranch(x, m, xm) ==
    IF x[1] <= 0 THEN x[1] = 0
    ELSE BLess(xm[1], BTimes10(xm[2], DIRECT_LOG_LIMIT))

\* __INVERSE_FACTORIALS[m]: TRUE when the read is inside the table
InTable(m) == m < MAX_FACTORIAL

e_m_x_x_over_factorial(x, m, xm) ==
    IF x[1] = 0 /\ m = 0 THEN VConst(QInt(1))
    ELSE IF DirectBranch(x, m, xm) THEN
        IF ~InTable(m) THEN (IF build = "python" THEN VErr ELSE VJunk)
        ELSE IF x[1] = 0 THEN VZero
        ELSE VSym(1, x, m)
    ELSE IF m = 0 THEN (IF build = "python" THEN VJunk ELSE VErr)
    ELSE VSym(2, x, m)

\* the table index the call reads, as a set (empty: no read)
TableRead(x, m, xm) ==
    IF (x[1] = 0 /\ m = 0) \/ ~DirectBranch(x, m, xm) THEN {}
    ELSE IF ~InTable(m) /\ build = "python" THEN {}
    ELSE {m}

(***************************************************************************)
(* Gn(x, n).  Loop state: m the next index, s the sum, pa/pb = a^m/b^m,    *)
(* sn = s * exp(x) * b^(m-1) * (m-1)! (the sum on the common denominator), *)
(* brk the early exit.                                                     *)
(***************************************************************************)
GnInit ==
    [m |-> 0, s |-> VZero, pa |-> BOne, pb |-> BOne, sn |-> BZero, brk |-> FALSE]

\* faulty variant: the guard x != 0 is dropped
GnNegligible_NoZeroGuard(x, m, vn, sn) ==
    /\ m * x[2] > 2 * x[1]
    /\ BLess(BTimes10(vn, PRECISION), sn)

\* x != 0 and m > 2 * x and -np.log10(np.abs(new_val / s)) > PRECISION
GnNegligible(x, m, vn, sn) ==
    /\ x[1] # 0
    /\ m * x[2] > 2 * x[1]
    /\ BLess(BTimes10(vn, PRECISION), sn)

GnBody(x, nn, st) ==
    LET e == e_m_x_x_over_factorial(x, st.m, <<st.pa, st.pb>>)
        new_val == VScale(QInt(nn - st.m), e)
        vn == BMul(st.pa, nn - st.m)
        sn2 == BAdd(BMul(st.sn, x[2] * st.m), vn)
    IN  [m |-> st.m + 1,
         s |-> VAdd(st.s, new_val),
         pa |-> BMul(st.pa, Abs(x[1])),
         pb |-> BMul(st.pb, x[2]),
         sn |-> sn2,
         brk |-> GnNegligible(x, st.m, vn, sn2)]

GnRunning(nn, st) == st.m < nn /\ ~st.brk /\ ~VIsErr(st.s)

RECURSIVE GnLoop(_, _, _)
GnLoop(x, nn, st) ==
    IF GnRunning(nn, st) THEN GnLoop(x, nn, GnBody(x, nn, st)) ELSE st.s

Gn(x, nn) == GnLoop(x, nn, GnInit)

(***************************************************************************)
(* h(k, n, td, tb, tau)                                                    *)
(***************************************************************************)
hFactor(kk, nn, d, b) == QSub(QMul(QInt(kk), b), QMul(QInt(nn), d))

hVal(kk, nn, d, b, t, gn) ==
    VAdd(VConst(QSub(QInt(kk), QDiv(QMul(QInt(nn), QAdd(d, t)), b))),
         VScale(QDiv(t, b), gn))

h(kk, nn, d, b, t) ==
    IF QLt(hFactor(kk, nn, d, b), QInt(0)) THEN VZero
    ELSE hVal(kk, nn, d, b, t, Gn(QDiv(hFactor(kk, nn, d, b), t), nn))

(***************************************************************************)
(* r_det(td, r_i) and the rate -> tau conversion of the callers.           *)
(***************************************************************************)
r_det(d, r_i) == QDiv(QInt(1), QAdd(QDiv(QInt(1), r_i), d))

(***************************************************************************)
(* A0 and A_single_k.  A loop bound of -1 stands for the ZeroDivisionError *)
(* of tb / td.                                                             *)
(***************************************************************************)
\* faulty variant: int(max(1, tb / td)), the + 1 is dropped
A0Bound_NoPlusOne(d, b) ==
    LET y == QDiv(b, d)
    IN  IF QIsErr(y) THEN -1 ELSE QFloor(QMax(QInt(1), y))

\* int(max(1, tb / td + 1))
A0Bound(d, b) ==
    LET y == QAdd(QDiv(b, d), QInt(1))
    IN  IF QIsErr(y) THEN -1 ELSE QFloor(QMax(QInt(1), y))

\* faulty variant: int(max(1, (k + 2) * tb / td)), the factor 3 is dropped
AkBound_NoFactor3(kk, d, b) ==
    LET y == QDiv(QMul(QInt(kk + 2), b), d)
    IN  IF QIsErr(y) THEN -1 ELSE QFloor(QMax(QInt(1), y))

\* int(max(1, (k + 2) * tb / td)) * 3
AkBound(kk, d, b) ==
    LET y == QDiv(QMul(QInt(kk + 2), b), d)
    IN  IF QIsErr(y) THEN -1 ELSE QFloor(QMax(QInt(1), y)) * 3

ABound(kk, d, b) == IF kk = 0 THEN A0Bound(d, b) ELSE AkBound(kk, d, b)

\* the value one iteration adds to s
ATerm(kk, nn, d, b, t) ==
    IF kk = 0 THEN h(1, nn, d, b, t)
    ELSE VAdd(VSub(h(kk + 1, nn, d, b, t), VScale(QInt(2), h(kk, nn, d, b, t))),
              h(kk - 1, nn, d, b, t))

\* return r0 * tb * (1 + 2 * s)  /  return r0 * tb * s
AResult(kk, r, b, sum) ==
    IF kk = 0 THEN VScale(QMul(r, b), VAdd(VConst(QInt(1)), VScale(QInt(2), sum)))
    ELSE VScale(QMul(r, b), sum)

RECURSIVE ALoop(_, _, _, _, _, _, _)
ALoop(kk, nn, bound, d, b, t, sum) ==
    IF nn >= bound \/ VIsErr(sum) THEN sum
    ELSE ALoop(kk, nn + 1, bound, d, b, t, VAdd(sum, ATerm(kk, nn, d, b, t)))

A_single_k(kk, r, d, b, t) ==
    IF ABound(kk, d, b) < 0 THEN VErr
    ELSE AResult(kk, r, b, ALoop(kk, 1, ABound(kk, d, b), d, b, t, VZero))

A0(r, d, b, t) == A_single_k(0, r, d, b, t)

(***************************************************************************)
(* B_raw, safe_B_single_k, safe_B / B (scalar entry).                      *)
(***************************************************************************)
B_raw(kk, r, d, b, t) ==
    VScale(QDiv(QInt(IF kk = 0 THEN 2 ELSE 4), QMul(r, b)),
           VSub(A_single_k(kk, r, d, b, t), VConst(QMul(QMul(r, r), QMul(b, b)))))

\* faulty variant: if k >= limit_k
SafeBCutoff_Inclusive(kk, lim) == kk >= lim

\* if k > limit_k: return 0.0
SafeBCutoff(kk, lim) == kk > lim

safe_B_single_k(kk, r, d, b, t, lim) ==
    IF SafeBCutoff(kk, lim) THEN VZero ELSE B_raw(kk, r, d, b, t)

\* no call of pds_model_zhang is running
NoCall ==
    /\ N = 0
    /\ rate = QInt(0)
    /\ P = << >>
    /\ it = << >>
    /\ eq8_sum = << >>
    /\ freqs = << >>
    /\ calls = {}
    /\ wlog = {}
    /\ nwrites = << >>
    /\ acc = {}
    /\ tablew = 0
    /\ warned = FALSE

(***************************************************************************)
(* Specification SpecH: one call of h, the loop of Gn run step by step.    *)
(* The arguments are those A_single_k passes: any lag k, any n, around the *)
(* edge of the support k * tb = n * td and far inside it.                  *)
(***************************************************************************)
MaxT == 2

MaxSeries == 6

FarLag == 24

TableEdge == (MAX_FACTORIAL - 1) .. (MAX_FACTORIAL + 2)

LagOffsets == {-1, 0, 1, FarLag}

\* the first lag whose support contains n: ceil(n * td / tb)
EdgeLag(nn, d, b) == QCeil(QDiv(QMul(QInt(nn), d), b))

ValidDetectors ==
    {p \in (1 .. MaxT) \X (1 .. MaxT) \X (1 .. MaxT + 1) : p[1] < p[3]}

InitH ==
    /\ build \in Builds
    /\ \E p \in ValidDetectors :
          /\ td = QInt(p[1])
          /\ tb = QInt(p[2])
          /\ tau = QInt(p[3])
    /\ r0 = r_det(td, QDiv(QInt(1), tau))
    /\ n \in (0 .. MaxSeries) \cup TableEdge
    /\ \E off \in LagOffsets :
          /\ EdgeLag(n, td, tb) + off >= 0
          /\ k = EdgeLag(n, td, tb) + off
    /\ pc = "h_call"
    /\ ret = VZero
    /\ g = GnInit
    /\ reads = {}
    /\ asum = VZero
    /\ added = {}
    /\ limit_k = DEFAULT_LIMIT_K
    /\ acalls = 0
    /\ NoCall

GnArg == QDiv(hFactor(k, n, td, tb), tau)

\* if k * tb - n * td < 0: return 0.0
HNoSupport ==
    /\ pc = "h_call"
    /\ QLt(hFactor(k, n, td, tb), QInt(0))
    /\ pc' = "h_zero"
    /\ ret' = VZero
    /\ UNCHANGED <<build, td, tb, tau, r0, k, n, g, reads, asum, added, limit_k, acalls, pvars>>

HEnterGn ==
    /\ pc = "h_call"
    /\ ~QLt(hFactor(k, n, td, tb), QInt(0))
    /\ pc' = "gn_loop"
    /\ g' = GnInit
    /\ UNCHANGED <<build, td, tb, tau, r0, k, n, ret, reads, asum, added, limit_k, acalls, pvars>>

\* one iteration of the loop of Gn
GnIter ==
    /\ pc = "gn_loop"
    /\ GnRunning(n, g)
    /\ g' = GnBody(GnArg, n, g)
    /\ reads' = reads \cup TableRead(GnArg, g.m, <<g.pa, g.pb>>)
    /\ UNCHANGED <<build, td, tb, tau, r0, k, n, pc, ret, asum, added, limit_k, acalls, pvars>>

\* Gn returns s and h returns val, or the exception of the loop propagates
HReturn ==
    /\ pc = "gn_loop"
    /\ ~GnRunning(n, g)
    /\ ret' = hVal(k, n, td, tb, tau, g.s)
    /\ pc' = IF VIsErr(g.s) THEN "h_raise" ELSE "h_ret"
    /\ UNCHANGED <<build, td, tb, tau, r0, k, n, g, reads, asum, added, limit_k, acalls, pvars>>

NextH == HNoSupport \/ HEnterGn \/ GnIter \/ HReturn

SpecH == InitH /\ [][NextH]_vars

(***************************************************************************)
(* Specification SpecA: one call of A_single_k (A0 for k = 0), the loop    *)
(* over n run step by step.                                                *)
(***************************************************************************)
MaxLag == 3

InitA ==
    /\ build \in Builds
    /\ \E p \in ValidDetectors :
          /\ td = QInt(p[1])
          /\ tb = QInt(p[2])
          /\ tau = QInt(p[3])
    /\ r0 = r_det(td, QDiv(QInt(1), tau))
    /\ k \in 0 .. MaxLag
    /\ n = 1
    /\ pc = "A_call"
    /\ ret = VZero
    /\ g = GnInit
    /\ reads = {}
    /\ asum = VZero
    /\ added = {}
    /\ limit_k = DEFAULT_LIMIT_K
    /\ acalls = 0
    /\ NoCall

\* s = 0.0 and the loop bound is evaluated
AEnter ==
    /\ pc = "A_call"
    /\ pc' = IF ABound(k, td, tb) < 0 THEN "A_raise" ELSE "A_loop"
    /\ n' = 1
    /\ asum' = VZero
    /\ added' = {}
    /\ UNCHANGED <<build, td, tb, tau, r0, k, ret, g, reads, limit_k, acalls, pvars>>

\* one iteration: s += ...
AIter ==
    /\ pc = "A_loop"
    /\ n < ABound(k, td, tb)
    /\ ~VIsErr(asum)
    /\ asum' = VAdd(asum, ATerm(k, n, td, tb, tau))
    /\ added' = added \cup {n}
    /\ n' = n + 1
    /\ UNCHANGED <<build, td, tb, tau, r0, k, pc, ret, g, reads, limit_k, acalls, pvars>>

AReturn ==
    /\ pc = "A_loop"
    /\ n >= ABound(k, td, tb) \/ VIsErr(asum)
    /\ ret' = AResult(k, r0, tb, asum)
    /\ pc' = IF VIsErr(asum) THEN "A_raise" ELSE "A_ret"
    /\ UNCHANGED <<build, td, tb, tau, r0, k, n, g, reads, asum, added, limit_k, acalls, pvars>>

NextA == AEnter \/ AIter \/ AReturn

SpecA == InitA /\ [][NextA]_vars

(***************************************************************************)
(* Specification SpecB: one call of B(k, ..., limit_k) = safe_B with a     *)
(* scalar lag, that is safe_B_single_k(int(k), ..., limit_k).              *)
(***************************************************************************)
MaxLimitK == 3

InitB ==
    /\ build \in Builds
    /\ \E p \in ValidDetectors :
          /\ td = QInt(p[1])
          /\ tb = QInt(p[2])
          /\ tau = QInt(p[3])
    /\ r0 = r_det(td, QDiv(QInt(1), tau))
    /\ k \in 0 .. MaxLag
    /\ limit_k \in -1 .. MaxLimitK
    /\ n = 1
    /\ pc = "B_call"
    /\ ret = VZero
    /\ g = GnInit
    /\ reads = {}
    /\ asum = VZero
    /\ added = {}
    /\ acalls = 0
    /\ NoCall

\* the cut: 0.0 is returned, B_raw is not called
SafeBCut ==
    /\ pc = "B_call"
    /\ SafeBCutoff(k, limit_k)
    /\ ret' = VZero
    /\ pc' = "B_ret"
    /\ UNCHANGED <<build, td, tb, tau, r0, k, n, g, reads, asum, added, limit_k, acalls, pvars>>

\* return B_raw(k, ...), which evaluates A_single_k once
SafeBRaw ==
    /\ pc = "B_call"
    /\ ~SafeBCutoff(k, limit_k)
    /\ ret' = B_raw(k, r0, td, tb, tau)
    /\ acalls' = acalls + 1
    /\ pc' = IF VIsErr(B_raw(k, r0, td, tb, tau)) THEN "B_raise" ELSE "B_ret"
    /\ UNCHANGED <<build, td, tb, tau, r0, k, n, g, reads, asum, added, limit_k, pvars>>

NextB == SafeBCut \/ SafeBRaw

SpecB == InitB /\ [][NextB]_vars

(***************************************************************************)
(* _inner_loop_pds_zhang and pds_model_zhang.                              *)
(***************************************************************************)
\* np.cos(2 * np.pi * r / NN) where it is rational, <<0, 0>> where it is not
CosExact(rr, NN) ==
    IF rr = 0 THEN <<1, 1>>
    ELSE IF 2 * rr = NN THEN <<-1, 1>>
    ELSE IF 4 * rr = NN \/ 4 * rr = 3 * NN THEN <<0, 1>>
    ELSE IF 6 * rr = NN \/ 6 * rr = 5 * NN THEN <<1, 2>>
    ELSE IF 3 * rr = NN \/ 3 * rr = 2 * NN THEN <<-1, 2>>
    ELSE <<0, 0>>

\* v * np.cos(2 * np.pi * r / NN)
VMulCos(v, r, NN) ==
    IF v.tag # "ok" THEN v
    ELSE LET rr == r % NN
             c == Min(rr, NN - rr)
             d == GCD(c, NN)
         IN  IF CosExact(rr, NN) # <<0, 0>> THEN VScale(CosExact(rr, NN), v)
             ELSE [tag |-> "ok",
                   t |-> {<<<<t[1][1], t[1][2], t[1][3], t[1][4], c \div d, NN \div d>>,
                            t[2], t[3]>> : t \in v.t}]

\* faulty variant: range(1, min(N, limit_k) + 1)
KStop_Inclusive == Min(N, limit_k) + 1

\* range(1, min(N, limit_k)) stops before KStop
KStop == Min(N, limit_k)

\* (N - k) / N * safe_B_single_k(k, ..., limit_k=limit_k) * np.cos(2 * np.pi * j * k / N)
InnerTerm(j, kk) ==
    VMulCos(VScale(QNorm(N - kk, N), safe_B_single_k(kk, r0, td, tb, tau, limit_k)),
            j * kk, N)

\* safe_B_single_k(0, r0, td, tb, tau): limit_k is not passed
InnerLagZero == safe_B_single_k(0, r0, td, tb, tau, DEFAULT_LIMIT_K)

RECURSIVE InnerKLoop(_, _, _)
InnerKLoop(j, kk, sum) ==
    IF kk >= KStop \/ VIsErr(sum) THEN sum
    ELSE InnerKLoop(j, kk + 1, VAdd(sum, InnerTerm(j, kk)))

\* P[j] of a sequential run of the loop over j
inner_loop_pds_zhang(j) == VAdd(InnerLagZero, InnerKLoop(j, 1, VZero))

\* faulty variant: one accumulator shared by the iterations
AccOf_Shared(j) == 0

\* the accumulator iteration j uses (eq8_sum is local to the iteration)
AccOf(j) == j

\* the slot iteration j writes (P[j] = ...)
WriteSlot(j) == j

\* np.arange(0, stop, step)
Arange(stop, step) ==
    LET q == QDiv(stop, step)
        len == IF QLe(q, QInt(0)) THEN 0 ELSE QCeil(q)
    IN  [i \in 0 .. len - 1 |-> QMul(QInt(i), step)]

(***************************************************************************)
(* Specification Spec: one call of pds_model_zhang(N, rate, td, tb,        *)
(* limit_k); the iterations of the prange loop interleave.                 *)
(***************************************************************************)
MaxN == 4

\* <<rate, td, tb>>: three valid detectors (tb = td, tb < td, tb > td), then
\* rate = 0, td = 0, tb = 0, td = 1 / rate, td > 1 / rate, td < 0, tb < 0
PdsDetectors ==
    { <<<<1, 2>>, <<1, 1>>, <<1, 1>>>>,
      <<<<1, 3>>, <<2, 1>>, <<1, 1>>>>,
      <<<<1, 3>>, <<1, 1>>, <<2, 1>>>>,
      <<<<0, 1>>, <<1, 1>>, <<1, 1>>>>,
      <<<<1, 2>>, <<0, 1>>, <<1, 1>>>>,
      <<<<1, 2>>, <<1, 1>>, <<0, 1>>>>,
      <<<<1, 1>>, <<1, 1>>, <<1, 1>>>>,
      <<<<1, 1>>, <<2, 1>>, <<1, 1>>>>,
      <<<<1, 2>>, <<-1, 1>>, <<1, 1>>>>,
      <<<<1, 2>>, <<1, 1>>, <<-1, 1>>>> }

Init ==
    /\ build \in Builds
    /\ N \in -1 .. MaxN
    /\ \E p \in PdsDetectors :
          /\ rate = p[1]
          /\ td = p[2]
          /\ tb = p[3]
    /\ limit_k \in -1 .. MaxLimitK
    /\ tau = QInt(0)
    /\ r0 = QInt(0)
    /\ k = 0
    /\ n = 0
    /\ pc = "start"
    /\ ret = VZero
    /\ g = GnInit
    /\ reads = {}
    /\ asum = VZero
    /\ added = {}
    /\ acalls = 0
    /\ P = << >>
    /\ it = << >>
    /\ eq8_sum = << >>
    /\ freqs = << >>
    /\ calls = {}
    /\ wlog = {}
    /\ nwrites = << >>
    /\ acc = {}
    /\ tablew = 0
    /\ warned = FALSE

hvars == <<k, n, ret, g, reads, asum, added, acalls>>

\* tau = 1 / rate; r0 = r_det(td, rate); P = np.zeros(N // 2)
Enter ==
    /\ pc = "start"
    /\ LET t == QDiv(QInt(1), rate)
           r == r_det(td, rate)
           L == N \div 2
       IN  IF QIsErr(t) \/ QIsErr(r) \/ L < 0
           THEN /\ pc' = "error"
                /\ UNCHANGED <<tau, r0, P, it, eq8_sum, nwrites>>
           ELSE /\ pc' = "loop"
                /\ tau' = t
                /\ r0' = r
                /\ P' = [j \in 0 .. L - 1 |-> VZero]
                /\ it' = [j \in 0 .. L - 1 |-> [st |-> "new", k |-> 1]]
                /\ eq8_sum' = [j \in 0 .. L - 1 |-> VZero]
                /\ nwrites' = [j \in 0 .. L - 1 |-> 0]
    /\ UNCHANGED <<build, td, tb, limit_k, N, rate, freqs, calls, wlog, acc, tablew,
                   warned, hvars>>

\* iteration j starts: eq8_sum = 0
IterBegin(j) ==
    /\ pc = "loop"
    /\ it[j].st = "new"
    /\ it' = [it EXCEPT ![j] = [st |-> "run", k |-> 1]]
    /\ eq8_sum' = [eq8_sum EXCEPT ![AccOf(j)] = VZero]
    /\ acc' = acc \cup {<<j, AccOf(j)>>}
    /\ UNCHANGED <<build, td, tb, tau, r0, limit_k, N, rate, pc, P, freqs, calls, wlog,
                   nwrites, tablew, warned, hvars>>

\* iteration j, one lag k: eq8_sum += new_val
IterStep(j) ==
    /\ pc = "loop"
    /\ it[j].st = "run"
    /\ it[j].k < KStop
    /\ LET new_val == InnerTerm(j, it[j].k)
       IN  IF VIsErr(new_val)
           THEN /\ pc' = "error"
                /\ UNCHANGED <<it, eq8_sum>>
           ELSE /\ pc' = pc
                /\ eq8_sum' = [eq8_sum EXCEPT ![AccOf(j)] = VAdd(eq8_sum[AccOf(j)], new_val)]
                /\ it' = [it EXCEPT ![j].k = it[j].k + 1]
    /\ calls' = calls \cup {[j |-> j, k |-> it[j].k, lim |-> limit_k, inner |-> TRUE,
                              cut |-> SafeBCutoff(it[j].k, limit_k)]}
    /\ acc' = acc \cup {<<j, AccOf(j)>>}
    /\ UNCHANGED <<build, td, tb, tau, r0, limit_k, N, rate, P, freqs, wlog, nwrites,
                   tablew, warned, hvars>>

\* iteration j ends: P[j] = safe_B_single_k(0, r0, td, tb, tau) + eq8_sum
IterWrite(j) ==
    /\ pc = "loop"
    /\ it[j].st = "run"
    /\ it[j].k >= KStop
    /\ LET v == VAdd(InnerLagZero, eq8_sum[AccOf(j)])
       IN  IF VIsErr(v)
           THEN /\ pc' = "error"
                /\ UNCHANGED <<it, P, wlog, nwrites>>
           ELSE /\ pc' = pc
                /\ P' = [P EXCEPT ![WriteSlot(j)] = v]
                /\ it' = [it EXCEPT ![j].st = "done"]
                /\ wlog' = wlog \cup {<<j, WriteSlot(j)>>}
                /\ nwrites' = [nwrites EXCEPT ![WriteSlot(j)] = nwrites[WriteSlot(j)] + 1]
    /\ calls' = calls \cup {[j |-> j, k |-> 0, lim |-> DEFAULT_LIMIT_K, inner |-> FALSE,
                              cut |-> SafeBCutoff(0, DEFAULT_LIMIT_K)]}
    /\ acc' = acc \cup {<<j, AccOf(j)>>}
    /\ UNCHANGED <<build, td, tb, tau, r0, limit_k, N, rate, eq8_sum, freqs, tablew,
                   warned, hvars>>

\* the loop is over: the warning, maxf, df, freqs; return freqs, P
Axis ==
    /\ pc = "loop"
    /\ \A j \in DOMAIN it : it[j].st = "done"
    /\ warned' = QLt(QMul(QInt(WARN_RATIO), td), tb)
    /\ LET maxf == QDiv(<<1, 2>>, tb)
           df == QDiv(maxf, QInt(Cardinality(DOMAIN P)))
       IN  IF QIsErr(df)
           THEN /\ pc' = "error"
                /\ UNCHANGED freqs
           ELSE /\ pc' = "done"
                /\ freqs' = Arange(maxf, df)
    /\ UNCHANGED <<build, td, tb, tau, r0, limit_k, N, rate, P, it, eq8_sum, calls, wlog,
                   nwrites, acc, tablew, hvars>>

Next ==
    \/ Enter
    \/ \E j \in DOMAIN it : IterBegin(j)
    \/ \E j \in DOMAIN it : IterStep(j)
    \/ \E j \in DOMAIN it : IterWrite(j)
    \/ Axis

Spec == Init /\ [][Next]_vars

(***************************************************************************)
(* Claims on pds_model_zhang (specification Spec).                         *)
(***************************************************************************)
\* N > 0, rate > 0, td > 0, tb > 0, td < 1 / rate
PreconditionsHold ==
    /\ N > 0
    /\ rate[1] > 0
    /\ td[1] > 0
    /\ tb[1] > 0
    /\ QLt(td, QDiv(QInt(1), rate))

\* C1: a call whose parameters break a precondition ends in an error and
\* never returns (freqs, power).
C1_ViolationNeverReturns == ~PreconditionsHold => pc # "done"

\* C2: a call that satisfies the preconditions returns normally, power has
\* N div 2 entries, freqs as many, freqs[i] = i * df with
\* df = (0.5 / tb) / len(power): from 0, increasing, below 0.5 / tb.
C2_ValidCallReturnsAxis ==
    PreconditionsHold =>
        /\ pc # "error"
        /\ pc = "done" =>
              /\ DOMAIN P = 0 .. (N \div 2) - 1
              /\ DOMAIN freqs = DOMAIN P
              /\ \A i \in DOMAIN freqs :
                    /\ freqs[i] = QMul(QInt(i),
                                       QDiv(QDiv(<<1, 2>>, tb), QInt(Cardinality(DOMAIN P))))
                    /\ QLt(freqs[i], QDiv(<<1, 2>>, tb))
                    /\ i > 0 => QLt(freqs[i - 1], freqs[i])
              /\ 0 \in DOMAIN freqs => freqs[0] = QInt(0)

\* the sum of C3 for the lags kk .. last, every term with the caller's limit_k
RECURSIVE ClaimLagSum(_, _, _)
ClaimLagSum(j, kk, last) ==
    IF kk > last THEN VZero
    ELSE VAdd(VMulCos(VScale(QNorm(N - kk, N),
                             safe_B_single_k(kk, r0, td, tb, tau, limit_k)), j * kk, N),
              ClaimLagSum(j, kk + 1, last))

ClaimP(j) ==
    VAdd(safe_B_single_k(0, r0, td, tb, tau, limit_k),
         ClaimLagSum(j, 1, Min(N, limit_k) - 1))

\* C3: P[j] = safe_B(0) + sum over k = 1 .. min(N, limit_k) - 1 of
\* (N - k) / N * safe_B(k) * cos(2 pi j k / N), every safe_B term, the one of
\* k = 0 too, taken with the caller's limit_k.
C3_SlotIsClaimedSum ==
    (PreconditionsHold /\ pc = "done") => \A j \in DOMAIN P : P[j] = ClaimP(j)

\* C5: under every interleaving of the prange iterations, iteration j writes
\* slot P[j] only, once; it touches its own accumulator only; the table of
\* inverse factorials is never written; the array returned is the one of a
\* sequential run (so equal inputs give equal output).
C5_IterationsIndependent ==
    /\ \A w \in wlog : w[2] = w[1]
    /\ \A a \in acc : a[2] = a[1]
    /\ tablew = 0
    /\ \A j \in DOMAIN it :
          /\ nwrites[j] = (IF it[j].st = "done" THEN 1 ELSE 0)
          /\ it[j].st # "done" => P[j] = VZero
    /\ pc = "done" => \A j \in DOMAIN P : P[j] = inner_loop_pds_zhang(j)

\* C5 witness: iteration 1 has written its slot while iteration 0 is in the
\* middle of its lags.
C5_Witness ==
    /\ pc = "loop"
    /\ 1 \in DOMAIN it
    /\ it[1].st = "done"
    /\ it[0].st = "run"
    /\ it[0].k = 2
    /\ P[1] # VZero

\* the sum over the lags kk .. last of B_raw terms
RECURSIVE RawLagSum(_, _, _)
RawLagSum(j, kk, last) ==
    IF kk > last THEN VZero
    ELSE VAdd(VMulCos(VScale(QNorm(N - kk, N), B_raw(kk, r0, td, tb, tau)), j * kk, N),
              RawLagSum(j, kk + 1, last))

\* C10 as stated: for limit_k >= 0 the cut is never taken and every lag k the
\* loop passes to safe_B_single_k has 0 <= k < min(N, limit_k), so the lag
\* k = limit_k is never added.
C10_EveryLagBelowLimit ==
    limit_k >= 0 =>
        \A c \in calls : ~c.cut /\ 0 <= c.k /\ c.k < Min(N, limit_k) /\ c.k # limit_k

\* C10 amended: for limit_k >= 0 the cut is never taken and every term of P[j]
\* is a B_raw value; the lags of the loop over k have 1 <= k < min(N, limit_k);
\* the lag 0 is passed outside that loop whatever limit_k is (limit_k = 0
\* included); for limit_k >= 1 every lag passed has 0 <= k < min(N, limit_k)
\* and the lag k = limit_k is never added.
C10_CutNeverTaken ==
    limit_k >= 0 =>
        /\ \A c \in calls :
              /\ ~c.cut
              /\ c.inner => 1 <= c.k /\ c.k < Min(N, limit_k)
              /\ ~c.inner => c.k = 0
              /\ limit_k >= 1 => 0 <= c.k /\ c.k < Min(N, limit_k) /\ c.k # limit_k
        /\ pc = "done" =>
              \A j \in DOMAIN P :
                  P[j] = VAdd(B_raw(0, r0, td, tb, tau),
                              RawLagSum(j, 1, Min(N, limit_k) - 1))

\* C10 witness: a finished call whose loop over k passed the lags 1 and 2.
C10_Witness ==
    /\ pc = "done"
    /\ limit_k >= 3
    /\ \E c \in calls : c.inner /\ c.k = 2
    /\ \E c \in calls : ~c.inner

(***************************************************************************)
(* Claims on safe_B_single_k (specification SpecB).                        *)
(***************************************************************************)
\* c_k * (A(k) - r0^2 * tb^2) / (r0 * tb), c_0 = 2, c_k = 4
ClaimBRaw(kk) ==
    VScale(QDiv(QInt(IF kk = 0 THEN 2 ELSE 4), QMul(r0, tb)),
           VSub(A_single_k(kk, r0, td, tb, tau),
                VConst(QMul(QMul(r0, r0), QMul(tb, tb)))))

\* C4: safe_B_single_k returns 0.0 for k > limit_k, A not evaluated, and
\* B_raw(k) otherwise; the lag k = limit_k is not cut.
C4_SafeBCutsAboveLimit ==
    /\ pc # "B_raise"
    /\ pc = "B_ret" =>
          IF k > limit_k THEN ret = VZero /\ acalls = 0
          ELSE ret = ClaimBRaw(k) /\ acalls = 1

\* C4 witness: the call at the boundary lag returned a B_raw value.
C4_Witness == pc = "B_ret" /\ k = limit_k /\ k >= 1 /\ ret # VZero /\ acalls = 1

(***************************************************************************)
(* Claims on A0 and A_single_k (specification SpecA).                      *)
(***************************************************************************)
MaxTail == 3

\* sum of h(kk, i) for i = from .. to
RECURSIVE ClaimSumH(_, _, _)
ClaimSumH(kk, from, to) ==
    IF from > to THEN VZero
    ELSE VAdd(h(kk, from, td, tb, tau), ClaimSumH(kk, from + 1, to))

\* N0 = floor(max(1, tb / td + 1))
ClaimN0 == QFloor(QMax(QInt(1), QAdd(QDiv(tb, td), QInt(1))))

\* tb - i * td >= 0: h(1, i) has support
Support1(i) == ~QLt(QSub(tb, QMul(QInt(i), td)), QInt(0))

\* C7: A0 returns r0 * tb * (1 + 2 * S), S the sum of h(1, n) for n = 1 .. N0
\* inclusive; the n it adds (1 .. N0 - 1) are the n >= 1 where h(1, n) has
\* support; for tb < td it adds nothing and A(0) = r0 * tb.
C7_A0SumsTheSupport ==
    (pc = "A_ret" /\ k = 0) =>
        /\ ret = VScale(QMul(r0, tb),
                        VAdd(VConst(QInt(1)), VScale(QInt(2), ClaimSumH(1, 1, ClaimN0))))
        /\ added = 1 .. (ClaimN0 - 1)
        /\ added = {i \in 1 .. (ClaimN0 + MaxTail) : Support1(i)}
        /\ QLt(tb, td) => added = {} /\ ret = VConst(QMul(r0, tb))

\* C7 witness: A0 returned after adding two terms (tb = 2 td).
C7_Witness == pc = "A_ret" /\ k = 0 /\ Cardinality(added) = 2 /\ ret.t # {}

\* N_k = 3 * floor(max(1, (k + 2) * tb / td))
ClaimNk == 3 * QFloor(QMax(QInt(1), QDiv(QMul(QInt(k + 2), tb), td)))

\* sum of h(k+1, i) - 2 h(k, i) + h(k-1, i) for i = from .. to
RECURSIVE ClaimSumK(_, _)
ClaimSumK(from, to) ==
    IF from > to THEN VZero
    ELSE VAdd(VAdd(VSub(h(k + 1, from, td, tb, tau),
                        VScale(QInt(2), h(k, from, td, tb, tau))),
                   h(k - 1, from, td, tb, tau)),
              ClaimSumK(from + 1, to))

\* (k + 1) * tb - i * td >= 0: h(k + 1, i) has support
SupportK(i) == ~QLt(QSub(QMul(QInt(k + 1), tb), QMul(QInt(i), td)), QInt(0))

\* C8: for k >= 1 A_single_k returns r0 * tb * the sum for n = 1 .. N_k
\* inclusive; the truncation drops nothing: for n >= N_k the three terms are 0
\* because (k + 1) * tb - n * td < 0, and every n with support was added.
C8_TruncationDropsNothing ==
    (pc = "A_ret" /\ k >= 1) =>
        /\ ret = VScale(QMul(r0, tb), ClaimSumK(1, ClaimNk))
        /\ \A i \in ClaimNk .. (ClaimNk + MaxTail) :
              /\ ~SupportK(i)
              /\ h(k + 1, i, td, tb, tau) = VZero
              /\ h(k, i, td, tb, tau) = VZero
              /\ h(k - 1, i, td, tb, tau) = VZero
        /\ {i \in 1 .. (ClaimNk + MaxTail) : SupportK(i)} \subseteq added

\* C8 witness: A_single_k returned for a lag k >= 2 with tb < td.
C8_Witness == pc = "A_ret" /\ k >= 2 /\ QLt(tb, td) /\ ret.t # {}

(***************************************************************************)
(* Claims on h, Gn and the table (specification SpecH).                    *)
(***************************************************************************)
\* k * tb = n * td
OnEdge == hFactor(k, n, td, tb) = QInt(0)

\* C9: on the edge of the support (k * tb = n * td, n <= 100) h takes the
\* branch of the non-negative factor, Gn(0, n) runs its n iterations without
\* early exit, only the term m = 0 is not zero, Gn(0, n) = n and h = 0.
C9_EdgeOfSupportIsZero ==
    (OnEdge /\ n <= MAX_FACTORIAL) =>
        /\ pc \notin {"h_zero", "h_raise"}
        /\ pc \in {"gn_loop", "h_ret"} =>
              /\ ~g.brk
              /\ g.m <= n
              /\ g.s = (IF g.m = 0 THEN VZero ELSE VConst(QInt(n)))
        /\ pc = "h_ret" => g.m = n /\ ret = VZero

\* C9 witness: h returned on the edge with n = 100.
C9_Witness == pc = "h_ret" /\ OnEdge /\ n = MAX_FACTORIAL /\ g.m = n

\* C6: the table of inverse factorials is never read at an index >= 100.
C6_NoReadPastTable == \A i \in reads : i < MAX_FACTORIAL

=============================================================================
